---- MODULE Spec2Model ----
(***************************************************************************)
(* Provider adaptation layer of goplus/xgowiz: the common Message/ToolCall *)
(* abstraction, the stored-history message, the four vendor adapters       *)
(* (OpenAI-style, Anthropic, Google, Ollama) and Google's schema           *)
(* translation.                                                            *)
(*                                                                         *)
(* Free text (Go strings that are concatenated, joined or trimmed) is a    *)
(* sequence of one-character strings; tags, roles, names and ids that the  *)
(* code only copies and compares are TLA+ strings.  The empty Go string is *)
(* <<>> for free text and "" for the copied ones.                          *)
(***************************************************************************)
EXTENDS Integers, Sequences, FiniteSets, TLC

VARIABLES
    \* --- a message under observation (SpecMsg) ---
    msg,          \* the llm.Message being read
    result,       \* what the last accessor call on msg returned
    reads,        \* the results of the successive msg.ToolCalls() calls
    now,          \* the last reading of time.Now().UnixNano()
    resp,         \* what Provider.CreateToolResponse returned
    \* --- Google schema translation (SpecSchema) ---
    schema,       \* the llm.Schema of a Tool
    gschema,      \* translateToGoogleSchema(schema)
    \* --- one Google Provider instance used by several goroutines (SpecGoogle) ---
    toolCallID,   \* Provider.toolCallID
    chatHistory,  \* Provider.chat.History
    modelTools,   \* Provider.model.Tools
    pc,           \* per goroutine: position inside Provider.SendMessage
    frame,        \* per goroutine: the locals of its SendMessage call
    returned,     \* the Messages SendMessage has returned, in return order
    failed,       \* number of SendMessage calls that returned an error
    overlapped,   \* TRUE once two SendMessage calls were in progress at once
    \* --- the adapter of this run and its last SendMessage call (SpecSend) ---
    adapter,      \* the adapter the run was configured with
    lastCall,     \* the arguments of the last SendMessage call
    request,      \* the message list that call handed to the vendor client
    outcome       \* the vendor's reply and what SendMessage returned for it

msgVars    == <<msg, result, reads, now, resp>>
schemaVars == <<schema, gschema>>
googleVars == <<toolCallID, chatHistory, modelTools, pc, frame, returned, failed, overlapped>>
sendVars   == <<adapter, lastCall, request, outcome>>
vars       == <<msgVars, schemaVars, googleVars, sendVars>>

None == [k |-> "none"]

-----------------------------------------------------------------------------
(* Bounds of the model. *)

MaxBlocks == 2      \* content blocks in a stored history turn
MaxClock  == 2      \* largest clock reading
MaxReads  == 2      \* ToolCalls() calls observed on one message
MaxDepth  == 2      \* nesting depth of the properties of a tool's schema
MaxCalls  == 2      \* SendMessage calls made on the Google Provider
MaxFn     == 2      \* function calls in one Google response

-----------------------------------------------------------------------------
(* Strings *)

Range(s) == { s[i] : i \in 1..Len(s) }

SeqsUpTo(S, n) == UNION { [1..k -> S] : k \in 0..n }

\* unicode.IsSpace on the characters the model uses
IsSpace(c) == c \in {" ", "\n"}

RECURSIVE TrimLeft(_)
TrimLeft(s) ==
    IF s # <<>> /\ IsSpace(Head(s)) THEN TrimLeft(Tail(s)) ELSE s

RECURSIVE TrimRight(_)
TrimRight(s) ==
    IF s # <<>> /\ IsSpace(s[Len(s)]) THEN TrimRight(SubSeq(s, 1, Len(s) - 1)) ELSE s

\* strings.TrimSpace
TrimSpace(s) == TrimRight(TrimLeft(s))

\* strings.Join(elems, sep)
RECURSIVE Join(_, _)
Join(elems, sep) ==
    IF elems = <<>> THEN <<>>
    ELSE IF Len(elems) = 1 THEN elems[1]
    ELSE elems[1] \o sep \o Join(Tail(elems), sep)

-----------------------------------------------------------------------------
(* encoding/json, as far as the adapters use it *)

\* a Go map[string]any with string values: nil, or a set of <<key, value>> pairs
NilMap     == [nil |-> TRUE, kv |-> {}]
GoMap(kvs) == [nil |-> FALSE, kv |-> kvs]
EmptyMap   == GoMap({})                  \* make(map[string]any)

\* The argument payloads the model draws from: JSON texts, with what
\* json.Unmarshal(text, &args) does to a nil map[string]any for each.
RawParis == "{\"location\":\"Paris\"}"

\* json.Unmarshal(raw, &args), args a nil map[string]any: (args, err)
Unmarshal(raw) ==
    CASE raw = RawParis -> [args |-> GoMap({<<"location", "Paris">>}), err |-> FALSE]
      [] raw = "{}"     -> [args |-> EmptyMap, err |-> FALSE]
      [] raw = "null"   -> [args |-> NilMap, err |-> FALSE]
      [] OTHER          -> [args |-> NilMap, err |-> TRUE]

\* values of type any: CreateToolResponse's content and a block's Content field.
\* A map[string]any is kept by its "text" and "content" entries (Absent: no such key).
AnyNil          == [k |-> "nil"]
Absent          == [k |-> "absent"]
AnyString(s)    == [k |-> "string", v |-> s]
AnyArray(a)     == [k |-> "array", v |-> a]
AnyMap(t, c)    == [k |-> "map", text |-> t, content |-> c]
AnyChan         == [k |-> "chan"]        \* a value json.Marshal rejects

RECURSIVE Marshalable(_)
Marshalable(v) ==
    CASE v.k = "chan"  -> FALSE
      [] v.k = "array" -> \A i \in 1..Len(v.v) : Marshalable(v.v[i])
      [] v.k = "map"   -> Marshalable(v.text) /\ Marshalable(v.content)
      [] OTHER         -> TRUE

\* the JSON text of a marshalable value (map keys in sorted order, as json.Marshal writes them)
RECURSIVE Encode(_)
Encode(v) ==
    CASE v.k = "nil"    -> <<"null">>
      [] v.k = "string" -> <<"\"">> \o v.v \o <<"\"">>
      [] v.k = "array"  ->
            <<"[">> \o Join([i \in 1..Len(v.v) |-> Encode(v.v[i])], <<",">>) \o <<"]">>
      [] v.k = "map"    ->
            LET c == IF v.content = Absent THEN <<>>
                     ELSE << <<"\"content\":">> \o Encode(v.content) >>
                t == IF v.text = Absent THEN <<>>
                     ELSE << <<"\"text\":">> \o Encode(v.text) >>
            IN  <<"{">> \o Join(c \o t, <<",">>) \o <<"}">>

\* json.Marshal(v): (bytes, err)
Marshal(v) ==
    IF Marshalable(v) THEN [bytes |-> Encode(v), err |-> FALSE]
    ELSE [bytes |-> <<>>, err |-> TRUE]

-----------------------------------------------------------------------------
(* llm/history: the stored message *)

\* history.ContentBlock; a field the JSON omits holds Go's zero value
ContentBlock(type, text, id, toolUseID, name, input, content) ==
    [Type |-> type, Text |-> text, ID |-> id, ToolUseID |-> toolUseID,
     Name |-> name, Input |-> input, Content |-> content]

TextBlock(text) == ContentBlock("text", text, "", "", "", "", AnyNil)
ToolUseBlock(id, name, input) == ContentBlock("tool_use", <<>>, id, "", name, input, AnyNil)
ToolResultBlock(toolUseID, text, content) ==
    ContentBlock("tool_result", text, "", toolUseID, "", "", content)

\* history.HistoryMessage
HistoryMessage(role, blocks) == [kind |-> "history", ARole |-> role, AContent |-> blocks]

\* HistoryMessage.Role
HistoryMessageRole(m) == m.ARole

\* HistoryContentLoop with the block-type test dropped: every block's Text is appended
RECURSIVE HistoryContentLoop_AllBlocks(_, _)
HistoryContentLoop_AllBlocks(blocks, content) ==
    IF blocks = <<>> THEN content
    ELSE HistoryContentLoop_AllBlocks(Tail(blocks), content \o Head(blocks).Text \o <<" ">>)

\* the loop of HistoryMessage.Content: content += block.Text + " " for text blocks
RECURSIVE HistoryContentLoop(_, _)
HistoryContentLoop(blocks, content) ==
    IF blocks = <<>> THEN content
    ELSE HistoryContentLoop(Tail(blocks),
            IF Head(blocks).Type = "text"
            THEN content \o Head(blocks).Text \o <<" ">>
            ELSE content)

\* HistoryMessage.Content
HistoryMessageContent(m) == TrimSpace(HistoryContentLoop(m.AContent, <<>>))

\* a llm.ToolCall as its three accessors report it
ToolCallOf(id, name, arguments) == [ID |-> id, Name |-> name, Arguments |-> arguments]

\* HistoryToolCall.Arguments
HistoryToolCallArguments(raw) ==
    IF Unmarshal(raw).err THEN EmptyMap ELSE Unmarshal(raw).args

\* HistoryMessage.ToolCalls
RECURSIVE HistoryMessageToolCalls(_)
HistoryMessageToolCalls(m) ==
    IF m.AContent = <<>> THEN <<>>
    ELSE LET block == Head(m.AContent)
             rest  == HistoryMessageToolCalls([m EXCEPT !.AContent = Tail(m.AContent)])
         IN  IF block.Type = "tool_use"
             THEN <<ToolCallOf(block.ID, block.Name, HistoryToolCallArguments(block.Input))>> \o rest
             ELSE rest

\* the (id, ok) pair of Message.ToolResponse
IdOk(id, ok) == [id |-> id, ok |-> ok]

\* HistoryMessage.ToolResponse without the early return: the last tool_result block wins
RECURSIVE HistoryMessageToolResponse_Last(_)
HistoryMessageToolResponse_Last(m) ==
    IF m.AContent = <<>> THEN [id |-> "", ok |-> FALSE]
    ELSE LET block == m.AContent[Len(m.AContent)]
         IN  IF block.Type = "tool_result"
             THEN [id |-> block.ToolUseID, ok |-> TRUE]
             ELSE HistoryMessageToolResponse_Last(
                      [m EXCEPT !.AContent = SubSeq(m.AContent, 1, Len(m.AContent) - 1)])

\* HistoryMessage.ToolResponse
RECURSIVE HistoryMessageToolResponse(_)
HistoryMessageToolResponse(m) ==
    IF m.AContent = <<>> THEN IdOk("", FALSE)
    ELSE IF Head(m.AContent).Type = "tool_result"
         THEN IdOk(Head(m.AContent).ToolUseID, TRUE)
         ELSE HistoryMessageToolResponse([m EXCEPT !.AContent = Tail(m.AContent)])

-----------------------------------------------------------------------------
(* fmt *)

\* fmt.Sprint(v) / fmt.Sprintf("%v", v) of a value of type any
Sprint(v) ==
    CASE v.k = "string" -> v.v
      [] v.k = "nil"    -> <<"<nil>">>
      [] v.k = "array"  -> <<"[...]">>
      [] v.k = "map"    -> <<"map[...]">>
      [] OTHER          -> <<"0xc000">>

-----------------------------------------------------------------------------
(* llm/openai: Message *)

\* openai.ToolCall
OpenAIToolCall(id, name, arguments) ==
    [ID |-> id, Type |-> "function", Function |-> [Name |-> name, Arguments |-> arguments]]

\* openai.Message, by its Choice.Message: Content is None for a nil *string
OpenAIMessage(role, content, toolCalls, callID) ==
    [kind |-> "openai", Role |-> role, Content |-> content,
     ToolCalls |-> toolCalls, ToolCallID |-> callID]

\* Message.Role
OpenAIMessageRole(m) == m.Role

\* Message.Content
OpenAIMessageContent(m) == IF m.Content = None THEN <<>> ELSE m.Content.v

\* ToolCallWrapper.Arguments
ToolCallWrapperArguments(arguments) ==
    IF Unmarshal(arguments).err THEN EmptyMap ELSE Unmarshal(arguments).args

\* Message.ToolCalls
OpenAIMessageToolCalls(m) ==
    [i \in 1..Len(m.ToolCalls) |->
        ToolCallOf(m.ToolCalls[i].ID, m.ToolCalls[i].Function.Name,
                   ToolCallWrapperArguments(m.ToolCalls[i].Function.Arguments))]

\* Message.ToolResponse
OpenAIMessageToolResponse(m) == IdOk(m.ToolCallID, m.ToolCallID # "")

-----------------------------------------------------------------------------
(* llm/anthropic: Message *)

\* anthropic.Message, by its Msg.Role and Msg.Content
AnthropicMessage(role, blocks) == [kind |-> "anthropic", Role |-> role, Content |-> blocks]

\* Message.Role
AnthropicMessageRole(m) == m.Role

\* the texts one element of a tool_result block's array content appends
AnthropicItemTexts(item) ==
    IF item.k = "map"
    THEN IF item.text # Absent THEN <<Sprint(item.text)>> ELSE <<>>
    ELSE <<Sprint(item)>>

RECURSIVE AnthropicArrayTexts(_)
AnthropicArrayTexts(items) ==
    IF items = <<>> THEN <<>>
    ELSE AnthropicItemTexts(Head(items)) \o AnthropicArrayTexts(Tail(items))

\* the loop of Message.Content over the blocks, content being the texts gathered so far
RECURSIVE AnthropicContentLoop(_, _)
AnthropicContentLoop(blocks, content) ==
    IF blocks = <<>> THEN content
    ELSE LET block == Head(blocks)
             afterArray ==
                 IF block.Content.k = "array"
                 THEN content \o AnthropicArrayTexts(block.Content.v)
                 ELSE content
             next ==
                 CASE block.Type = "text" -> Append(content, block.Text)
                   [] block.Type = "tool_result" ->
                        IF block.Content.k = "string"
                        THEN Append(content, block.Content.v)
                        ELSE IF Len(afterArray) = 0 /\ block.Text # <<>>
                             THEN Append(afterArray, block.Text)
                             ELSE afterArray
                   [] OTHER -> content
         IN  AnthropicContentLoop(Tail(blocks), next)

\* Message.Content
AnthropicMessageContent(m) ==
    TrimSpace(Join(AnthropicContentLoop(m.Content, <<>>), <<" ">>))

\* ToolCall.Arguments
AnthropicToolCallArguments(raw) ==
    IF Unmarshal(raw).err THEN EmptyMap ELSE Unmarshal(raw).args

\* Message.ToolCalls
RECURSIVE AnthropicMessageToolCalls(_)
AnthropicMessageToolCalls(m) ==
    IF m.Content = <<>> THEN <<>>
    ELSE LET block == Head(m.Content)
             rest  == AnthropicMessageToolCalls([m EXCEPT !.Content = Tail(m.Content)])
         IN  IF block.Type = "tool_use"
             THEN <<ToolCallOf(block.ID, block.Name, AnthropicToolCallArguments(block.Input))>> \o rest
             ELSE rest

\* Message.ToolResponse
RECURSIVE AnthropicMessageToolResponse(_)
AnthropicMessageToolResponse(m) ==
    IF m.Content = <<>> THEN IdOk("", FALSE)
    ELSE IF Head(m.Content).Type = "tool_result"
         THEN IdOk(Head(m.Content).ToolUseID, TRUE)
         ELSE AnthropicMessageToolResponse([m EXCEPT !.Content = Tail(m.Content)])

-----------------------------------------------------------------------------
(* cmd/google: Message and ToolCall *)

\* genai.Part values of a candidate
TextPart(text)               == [k |-> "text", text |-> text, Name |-> "", Args |-> NilMap]
FunctionCallPart(name, args) == [k |-> "functionCall", text |-> <<>>, Name |-> name, Args |-> args]
FunctionResponsePart         == [k |-> "functionResponse", text |-> <<>>, Name |-> "", Args |-> NilMap]

\* google.Message: the candidate's Content.Role and Content.Parts, and the stamp
GoogleMessage(role, parts, stamp) ==
    [kind |-> "google", Role |-> role, Parts |-> parts, toolCallID |-> stamp]

\* genai.Candidate.FunctionCalls: the function-call parts, in order
FunctionCalls(parts) == SelectSeq(parts, LAMBDA part : part.k = "functionCall")

\* ToolCall.ID: fmt.Sprintf("Tool<%d>", t.toolCallID)
GoogleToolCallID(n) == <<"Tool<", n, ">">>

\* Message.Role
GoogleMessageRole(m) == m.Role

\* Message.Content
RECURSIVE GoogleContentLoop(_, _)
GoogleContentLoop(parts, sb) ==
    IF parts = <<>> THEN sb
    ELSE GoogleContentLoop(Tail(parts),
            IF Head(parts).k = "text" THEN sb \o Head(parts).text ELSE sb)

GoogleMessageContent(m) == GoogleContentLoop(m.Parts, <<>>)

\* Message.ToolCalls: the i-th call (from 0) is stamped m.toolCallID + i
GoogleMessageToolCalls(m) ==
    LET calls == FunctionCalls(m.Parts)
    IN  [i \in 1..Len(calls) |->
            ToolCallOf(GoogleToolCallID(m.toolCallID + (i - 1)), calls[i].Name, calls[i].Args)]

\* Message.ToolResponse
GoogleMessageToolResponse(m) ==
    IF \E i \in 1..Len(m.Parts) : m.Parts[i].k = "functionResponse"
    THEN IdOk(GoogleToolCallID(m.toolCallID), TRUE)
    ELSE IdOk("", FALSE)

-----------------------------------------------------------------------------
(* cmd/ollama: OllamaMessage and OllamaToolCall *)

\* api.ToolCall
OllamaAPIToolCall(name, arguments) == [Name |-> name, Arguments |-> arguments]

\* ollama.OllamaMessage
OllamaMessage(role, content, toolCalls, callID) ==
    [kind |-> "ollama", Role |-> role, Content |-> content,
     ToolCalls |-> toolCalls, ToolCallID |-> callID]

\* OllamaMessage.Role
OllamaMessageRole(m) == m.Role

\* OllamaMessage.Content
OllamaMessageContent(m) == TrimSpace(m.Content)

\* the id NewOllamaToolCall gives a call when time.Now().UnixNano() reads t
OllamaToolCallID(name, t) == <<"tc_", name, "_", t>>

\* NewOllamaToolCall(call), the clock reading t
NewOllamaToolCall(call, t) ==
    ToolCallOf(OllamaToolCallID(call.Name, t), call.Name, call.Arguments)

\* OllamaMessage.ToolCalls: one NewOllamaToolCall per call, the i-th reading the clock as times[i]
OllamaMessageToolCalls(m, times) ==
    [i \in 1..Len(m.ToolCalls) |-> NewOllamaToolCall(m.ToolCalls[i], times[i])]

\* OllamaMessage.ToolResponse
OllamaMessageToolResponse(m) == IdOk(m.ToolCallID, m.Role = "tool")

-----------------------------------------------------------------------------
(* Provider.CreateToolResponse of the four adapters: (msg, err) *)

NilMessage == [kind |-> "nil"]           \* a nil llm.Message

Returned(m) == [msg |-> m, err |-> FALSE]
Failed      == [msg |-> NilMessage, err |-> TRUE]

NoContentFromTool == <<"No content returned from tool">>

\* openai: the texts one element of an array content appends
RECURSIVE StringsOf(_)
StringsOf(items) ==
    IF items = <<>> THEN <<>>
    ELSE (IF Head(items).k = "string" THEN <<Head(items).v>> ELSE <<>>) \o StringsOf(Tail(items))

RECURSIVE NestedTexts(_)
NestedTexts(items) ==
    IF items = <<>> THEN <<>>
    ELSE (IF Head(items).k = "map" /\ Head(items).text.k = "string"
          THEN <<Head(items).text.v>> ELSE <<>>) \o NestedTexts(Tail(items))

OpenAIItemTexts(item) ==
    IF item.k # "map" THEN <<>>
    ELSE IF item.text.k = "string" THEN <<item.text.v>>
    ELSE IF item.text.k = "array" THEN StringsOf(item.text.v)
    ELSE IF item.content.k = "array" THEN NestedTexts(item.content.v)
    ELSE <<>>

RECURSIVE OpenAIArrayTexts(_)
OpenAIArrayTexts(items) ==
    IF items = <<>> THEN <<>>
    ELSE OpenAIItemTexts(Head(items)) \o OpenAIArrayTexts(Tail(items))

\* openai Provider.CreateToolResponse: the tool-role message around contentStr
OpenAIToolMessage(callID, contentStr) ==
    Returned(OpenAIMessage("tool",
        AnyString(IF contentStr = <<>> THEN NoContentFromTool ELSE contentStr),
        <<>>, callID))

\* openai Provider.CreateToolResponse
OpenAICreateToolResponse(callID, content) ==
    CASE content.k = "string" -> OpenAIToolMessage(callID, content.v)
      [] content.k = "array" ->
            LET joined == Join(OpenAIArrayTexts(content.v), <<"\n">>)
            IN  IF joined # <<>> THEN OpenAIToolMessage(callID, joined)
                ELSE IF Marshal(content).err THEN Failed
                ELSE OpenAIToolMessage(callID, Marshal(content).bytes)
      [] OTHER ->
            IF Marshal(content).err THEN Failed
            ELSE OpenAIToolMessage(callID, Marshal(content).bytes)

\* anthropic Provider.CreateToolResponse
AnthropicCreateToolResponse(callID, content) ==
    LET contentStr ==
            IF content.k = "string" THEN content.v
            ELSE IF ~Marshal(content).err THEN Marshal(content).bytes
            ELSE Sprint(content)
    IN  Returned(AnthropicMessage("tool",
            <<ContentBlock("tool_result", contentStr, "", callID, "", "", content)>>))

\* google Provider.CreateToolResponse: return nil, nil
GoogleCreateToolResponse(callID, content) == Returned(NilMessage)

\* ollama Provider.CreateToolResponse
OllamaCreateToolResponse(callID, content) ==
    IF content.k = "string" THEN Returned(OllamaMessage("tool", content.v, <<>>, callID))
    ELSE IF Marshal(content).err THEN Failed
    ELSE Returned(OllamaMessage("tool", Marshal(content).bytes, <<>>, callID))

Providers == {"openai", "anthropic", "google", "ollama"}

CreateToolResponseOf(provider, callID, content) ==
    CASE provider = "openai"    -> OpenAICreateToolResponse(callID, content)
      [] provider = "anthropic" -> AnthropicCreateToolResponse(callID, content)
      [] provider = "google"    -> GoogleCreateToolResponse(callID, content)
      [] provider = "ollama"    -> OllamaCreateToolResponse(callID, content)

-----------------------------------------------------------------------------
(* llm.Message: the interface methods, dispatched on the dynamic type *)

Panic == [k |-> "panic"]                 \* a method called on a nil llm.Message

Role(m) ==
    CASE m.kind = "history"   -> HistoryMessageRole(m)
      [] m.kind = "openai"    -> OpenAIMessageRole(m)
      [] m.kind = "anthropic" -> AnthropicMessageRole(m)
      [] m.kind = "google"    -> GoogleMessageRole(m)
      [] m.kind = "ollama"    -> OllamaMessageRole(m)
      [] OTHER                -> Panic

Content(m) ==
    CASE m.kind = "history"   -> HistoryMessageContent(m)
      [] m.kind = "openai"    -> OpenAIMessageContent(m)
      [] m.kind = "anthropic" -> AnthropicMessageContent(m)
      [] m.kind = "google"    -> GoogleMessageContent(m)
      [] m.kind = "ollama"    -> OllamaMessageContent(m)
      [] OTHER                -> Panic

\* times: the clock readings of the NewOllamaToolCall calls (read by Ollama only)
ToolCalls(m, times) ==
    CASE m.kind = "history"   -> HistoryMessageToolCalls(m)
      [] m.kind = "openai"    -> OpenAIMessageToolCalls(m)
      [] m.kind = "anthropic" -> AnthropicMessageToolCalls(m)
      [] m.kind = "google"    -> GoogleMessageToolCalls(m)
      [] m.kind = "ollama"    -> OllamaMessageToolCalls(m, times)
      [] OTHER                -> Panic

ToolResponse(m) ==
    CASE m.kind = "history"   -> HistoryMessageToolResponse(m)
      [] m.kind = "openai"    -> OpenAIMessageToolResponse(m)
      [] m.kind = "anthropic" -> AnthropicMessageToolResponse(m)
      [] m.kind = "google"    -> GoogleMessageToolResponse(m)
      [] m.kind = "ollama"    -> OllamaMessageToolResponse(m)
      [] OTHER                -> Panic

-----------------------------------------------------------------------------
(* cmd/google: schema translation *)

\* A property description, a map[string]any: has is the set of keys present.
Property(has, type, description, properties, items, required) ==
    [has |-> has, type |-> type, description |-> description,
     properties |-> properties, items |-> items, required |-> required]

NoProperties == [n \in {} |-> None]      \* no entries
NoSchema     == [k |-> "nil"]            \* a nil *genai.Schema
Panicked     == [k |-> "panic"]          \* a failed type assertion

\* llm.Schema
Schema(type, properties, required) ==
    [Type |-> type, Properties |-> properties, Required |-> required]

\* genai.Schema
GenaiSchema(type, description, properties, items, required, nullable) ==
    [Type |-> type, Description |-> description, Properties |-> properties,
     Items |-> items, Required |-> required, Nullable |-> nullable]

IsPanicked(x) == "k" \in DOMAIN x /\ x.k = "panic"

toType(typ) ==
    CASE typ = "string"  -> "TypeString"
      [] typ = "boolean" -> "TypeBoolean"
      [] typ = "object"  -> "TypeObject"
      [] typ = "array"   -> "TypeArray"
      [] OTHER           -> "TypeUnspecified"

RECURSIVE propertyToGoogleSchema(_)
propertyToGoogleSchema(properties) ==
    IF "type" \notin properties.has THEN Panicked
    ELSE
    LET type == toType(properties.type)
        desc == IF "description" \in properties.has THEN properties.description ELSE <<>>
    IN  IF type = "TypeObject"
        THEN IF "properties" \notin properties.has THEN Panicked
             ELSE LET sub == [name \in DOMAIN properties.properties |->
                                 propertyToGoogleSchema(properties.properties[name])]
                  IN  IF \E name \in DOMAIN sub : IsPanicked(sub[name]) THEN Panicked
                      ELSE GenaiSchema(type, desc, sub, NoSchema, <<>>, FALSE)
        ELSE IF type = "TypeArray"
        THEN IF "items" \notin properties.has THEN Panicked
             ELSE LET items == propertyToGoogleSchema(properties.items)
                  IN  IF IsPanicked(items) THEN Panicked
                      ELSE GenaiSchema(type, desc, NoProperties, items, <<>>, FALSE)
        ELSE GenaiSchema(type, desc, NoProperties, NoSchema, <<>>, FALSE)

\* the property injected into a schema that has none
UnusedProperty == GenaiSchema("TypeInteger", <<>>, NoProperties, NoSchema, <<>>, TRUE)

\* translateToGoogleSchema without the zero-argument workaround
translateToGoogleSchema_NoWorkaround(s) ==
    LET sub == [name \in DOMAIN s.Properties |-> propertyToGoogleSchema(s.Properties[name])]
    IN  IF \E name \in DOMAIN sub : IsPanicked(sub[name]) THEN Panicked
        ELSE GenaiSchema(toType(s.Type), <<>>, sub, NoSchema, s.Required, FALSE)

translateToGoogleSchema(s) ==
    LET sub == [name \in DOMAIN s.Properties |-> propertyToGoogleSchema(s.Properties[name])]
    IN  IF \E name \in DOMAIN sub : IsPanicked(sub[name]) THEN Panicked
        ELSE IF DOMAIN sub = {}
        THEN GenaiSchema(toType(s.Type), <<>>, [name \in {"unused"} |-> UnusedProperty],
                         NoSchema, s.Required, TRUE)
        ELSE GenaiSchema(toType(s.Type), <<>>, sub, NoSchema, s.Required, FALSE)

-----------------------------------------------------------------------------
(* SpecMsg: one message, produced by a vendor decoder or read from stored   *)
(* history, and the calls a caller makes on it.                            *)

Threads == {1, 2}

MsgIdle ==
    /\ msg = None /\ result = None /\ reads = <<>> /\ now = 0 /\ resp = None

SchemaIdle == schema = None /\ gschema = None

GoogleIdle ==
    /\ toolCallID = 0 /\ chatHistory = <<>> /\ modelTools = <<>>
    /\ pc = [t \in Threads |-> "idle"] /\ frame = [t \in Threads |-> None]
    /\ returned = <<>> /\ failed = 0 /\ overlapped = FALSE

SendIdle == lastCall = None /\ request = None /\ outcome = None

\* the texts, ids and payloads the inputs are drawn from
Texts == { <<>>, <<"a">>, <<"b">>, <<" ", "a", " ">>, <<"a", " ", "\n", "b">> }

StoredRoles == {"user", "assistant", "tool"}

HistoryBlocks ==
    { TextBlock(t) : t \in Texts }
    \cup { ToolUseBlock("toolu_1", "get_weather", RawParis),
           ToolUseBlock("toolu_2", "get_time", "{bad"),
           ToolUseBlock("toolu_3", "get_time", "null") }
    \cup { ToolResultBlock("toolu_1", <<"r">>, AnyNil),
           ToolResultBlock("toolu_2", <<>>, AnyString(<<"s">>)),
           ToolResultBlock("toolu_2", <<>>,
               AnyArray(<<AnyMap(AnyString(<<"t">>), Absent)>>)) }

HistoryTurns ==
    { HistoryMessage(r, bs) : r \in StoredRoles, bs \in SeqsUpTo(HistoryBlocks, MaxBlocks) }

\* decoded vendor responses: the role is the one the vendor gives its own turns
OpenAIResponses ==
    { OpenAIMessage("assistant", c, tcs, "") :
        c \in {None, AnyString(<<"h", "i">>)},
        tcs \in SeqsUpTo({ OpenAIToolCall("call_1", "get_weather", RawParis),
                           OpenAIToolCall("call_2", "get_time", "{bad"),
                           OpenAIToolCall("call_3", "get_time", "null") }, MaxBlocks) }

AnthropicResponses ==
    { AnthropicMessage("assistant", bs) :
        bs \in SeqsUpTo({ TextBlock(<<"h", "i">>),
                          ToolUseBlock("toolu_1", "get_weather", RawParis),
                          ToolUseBlock("toolu_2", "get_time", "{}"),
                          ToolUseBlock("toolu_3", "get_time", "[1]") }, MaxBlocks) }

\* Anthropic messages that carry tool results: the blocks CreateToolResponse writes
\* and the block forms the vendor's JSON decodes to
AnthropicToolTurns ==
    { AnthropicMessage("user", bs) :
        bs \in SeqsUpTo({ TextBlock(<<"a">>),
                          ContentBlock("tool_result", <<"r">>, "", "toolu_1", "", "",
                                       AnyString(<<"s">>)),
                          ContentBlock("tool_result", <<"r">>, "", "toolu_1", "", "",
                                       AnyArray(<<AnyMap(AnyString(<<"t">>), Absent)>>)),
                          ContentBlock("tool_result", <<"r">>, "", "toolu_1", "", "",
                                       AnyArray(<<AnyMap(Absent, AnyString(<<"c">>))>>)),
                          ContentBlock("tool_result", <<"r">>, "", "toolu_1", "", "", AnyNil) },
                        MaxBlocks) }

GoogleResponses ==
    { GoogleMessage("model", ps, c) :
        ps \in SeqsUpTo({ TextPart(<<"h", "i">>),
                          FunctionCallPart("get_weather", GoMap({<<"location", "Paris">>})),
                          FunctionCallPart("get_time", NilMap) }, MaxBlocks),
        c \in {0, 3} }

OllamaResponses ==
    { OllamaMessage("assistant", c, tcs, "") :
        c \in {<<>>, <<"h", "i", " ">>},
        tcs \in SeqsUpTo({ OllamaAPIToolCall("get_weather", GoMap({<<"location", "Paris">>})),
                           OllamaAPIToolCall("get_time", EmptyMap) }, MaxBlocks) }

\* content values a caller hands to CreateToolResponse
ToolContents ==
    { AnyString(<<"r">>), AnyString(<<>>), AnyNil, AnyChan,
      AnyArray(<<AnyMap(AnyString(<<"t">>), Absent)>>),
      AnyArray(<<AnyMap(Absent, AnyArray(<<AnyMap(AnyString(<<"n">>), Absent)>>))>>) }

\* the non-decreasing clock readings of n successive time.Now() calls, none before t
RECURSIVE ClockReadings(_, _)
ClockReadings(n, t) ==
    IF n = 0 THEN { <<>> }
    ELSE UNION { { <<u>> \o rest : rest \in ClockReadings(n - 1, u) } : u \in t..MaxClock }

InitMsg ==
    /\ \/ msg \in HistoryTurns
       \/ msg \in OpenAIResponses
       \/ msg \in AnthropicResponses
       \/ msg \in AnthropicToolTurns
       \/ msg \in GoogleResponses
       \/ msg \in OllamaResponses
    /\ result = None /\ reads = <<>> /\ now = 0 /\ resp = None
    /\ SchemaIdle /\ GoogleIdle /\ adapter = "none" /\ SendIdle

ReadRole ==
    /\ result' = [op |-> "Role", v |-> Role(msg)]
    /\ UNCHANGED <<msg, reads, now, resp, schemaVars, googleVars, sendVars>>

ReadContent ==
    /\ result' = [op |-> "Content", v |-> Content(msg)]
    /\ UNCHANGED <<msg, reads, now, resp, schemaVars, googleVars, sendVars>>

ReadToolResponse ==
    /\ result' = [op |-> "ToolResponse", v |-> ToolResponse(msg)]
    /\ UNCHANGED <<msg, reads, now, resp, schemaVars, googleVars, sendVars>>

\* msg.ToolCalls(); the Ollama message reads the clock once per call
ReadToolCalls ==
    /\ Len(reads) < MaxReads
    /\ IF msg.kind = "ollama"
       THEN \E times \in ClockReadings(Len(msg.ToolCalls), now) :
               /\ reads' = Append(reads, ToolCalls(msg, times))
               /\ now' = IF times = <<>> THEN now ELSE times[Len(times)]
       ELSE /\ reads' = Append(reads, ToolCalls(msg, <<>>))
            /\ now' = now
    /\ UNCHANGED <<msg, result, resp, schemaVars, googleVars, sendVars>>

\* the ids a caller has read from msg
IdsRead == UNION { { reads[i][j].ID : j \in 1..Len(reads[i]) } : i \in 1..Len(reads) }

\* the adapter that decoded msg answers one of its tool calls
CreateToolResponse ==
    /\ resp = None
    /\ msg.kind \in Providers
    /\ \E X \in IdsRead, content \in ToolContents :
          resp' = [provider |-> msg.kind, id |-> X, content |-> content,
                   out |-> CreateToolResponseOf(msg.kind, X, content)]
    /\ UNCHANGED <<msg, result, reads, now, schemaVars, googleVars, sendVars>>

NextMsg ==
    \/ ReadRole
    \/ ReadContent
    \/ ReadToolResponse
    \/ ReadToolCalls
    \/ CreateToolResponse

SpecMsg == InitMsg /\ [][NextMsg]_vars

-----------------------------------------------------------------------------
(* Properties of messages (SpecMsg) *)

IsHistory == msg.kind = "history"

HasBlock(m, type) == \E i \in 1..Len(m.AContent) : m.AContent[i].Type = type

\* the texts of the text blocks of a stored turn, in block order
TextsOfTextBlocks(m) ==
    LET tb == SelectSeq(m.AContent, LAMBDA b : b.Type = "text")
    IN  [i \in 1..Len(tb) |-> tb[i].Text]

\* C2: under every adapter, the message CreateToolResponse(X, content) returns for an
\* id X read from an earlier assistant turn reports ToolResponse() = (X, true).
C2_ToolResponseEchoesId ==
    (resp # None /\ ~resp.out.err) => ToolResponse(resp.out.msg) = IdOk(resp.id, TRUE)

\* C4: the ToolCalls one Ollama response message returns have pairwise distinct ids,
\* two calls to the same function in that turn included.
C4_OllamaIdsDistinct ==
    msg.kind = "ollama" =>
        \A r \in 1..Len(reads) : \A i, j \in 1..Len(reads[r]) :
            i # j => reads[r][i].ID # reads[r][j].ID

\* C5: reading ToolCalls() again returns the same sequence of (id, name, arguments).
C5_ToolCallsStable ==
    \A i, j \in 1..Len(reads) : reads[i] = reads[j]

\* C6: Content() of a stored turn is the texts of its text blocks, in block order,
\* joined by one space and trimmed; other blocks add nothing; no blocks gives "".
C6_HistoryContentJoin ==
    (IsHistory /\ result # None /\ result.op = "Content") =>
        result.v = TrimSpace(Join(TextsOfTextBlocks(msg), <<" ">>))

C6_Witness ==
    /\ IsHistory /\ result # None /\ result.op = "Content"
    /\ msg.AContent = <<TextBlock(<<"a">>), TextBlock(<<"b">>)>>
    /\ result.v = <<"a", " ", "b">>

\* the payload of a tool_result block as the history reconstruction rule words it:
\* its text if present, else the flattened structured content, else the first element
Payload(block) ==
    IF block.Text # <<>> THEN block.Text
    ELSE IF block.Content.k = "string" THEN block.Content.v
    ELSE IF block.Content.k = "array" /\ block.Content.v # <<>>
         THEN Sprint(block.Content.v[1].text)
         ELSE <<>>

FirstBlock(m, type) ==
    m.AContent[CHOOSE i \in 1..Len(m.AContent) :
                  /\ m.AContent[i].Type = type
                  /\ \A j \in 1..(i - 1) : m.AContent[j].Type # type]

\* C7 as stated: a turn with a tool_result block reports (its toolUseId, true) and the
\* block's payload is the turn's Content(); a turn without one reports ("", false).
C7_PayloadIsContent ==
    (IsHistory /\ result # None) =>
        /\ (result.op = "ToolResponse" /\ ~HasBlock(msg, "tool_result")) =>
                result.v = IdOk("", FALSE)
        /\ (result.op = "ToolResponse" /\ HasBlock(msg, "tool_result")) =>
                result.v = IdOk(FirstBlock(msg, "tool_result").ToolUseID, TRUE)
        /\ (result.op = "Content" /\ HasBlock(msg, "tool_result")) =>
                result.v = Payload(FirstBlock(msg, "tool_result"))

WithoutToolResults(m) ==
    [m EXCEPT !.AContent = SelectSeq(m.AContent, LAMBDA b : b.Type # "tool_result")]

\* C7 as amended: a turn with a tool_result block reports (toolUseId of the first such
\* block, true), a turn without one ("", false); the tool_result blocks add nothing to
\* Content(), which is what it would be with those blocks removed.
C7_ToolResponseFirstBlock ==
    (IsHistory /\ result # None) =>
        /\ (result.op = "ToolResponse" /\ ~HasBlock(msg, "tool_result")) =>
                result.v = IdOk("", FALSE)
        /\ (result.op = "ToolResponse" /\ HasBlock(msg, "tool_result")) =>
                result.v = IdOk(FirstBlock(msg, "tool_result").ToolUseID, TRUE)
        /\ result.op = "Content" =>
                result.v = TrimSpace(Join(TextsOfTextBlocks(WithoutToolResults(msg)), <<" ">>))

C7_Witness ==
    /\ IsHistory /\ result # None /\ result.op = "ToolResponse"
    /\ msg.AContent = <<ToolResultBlock("toolu_1", <<"r">>, AnyNil),
                        ToolResultBlock("toolu_2", <<>>, AnyString(<<"s">>))>>
    /\ result.v = IdOk("toolu_1", TRUE)

\* C8: a message whose ToolCalls() is non-empty has Role() = "assistant".
C8_ToolCallsImplyAssistant ==
    (result # None /\ result.op = "Role" /\ reads # <<>> /\ reads[1] # <<>>) =>
        result.v = "assistant"

\* the tool-call entries a message carries, in order, as (id, name, argument payload)
VendorEntries(m) ==
    CASE m.kind = "openai" ->
            [i \in 1..Len(m.ToolCalls) |->
                [ID |-> m.ToolCalls[i].ID, Name |-> m.ToolCalls[i].Function.Name,
                 Raw |-> m.ToolCalls[i].Function.Arguments]]
      [] m.kind = "anthropic" ->
            LET tu == SelectSeq(m.Content, LAMBDA b : b.Type = "tool_use")
            IN  [i \in 1..Len(tu) |-> [ID |-> tu[i].ID, Name |-> tu[i].Name, Raw |-> tu[i].Input]]
      [] m.kind = "history" ->
            LET tu == SelectSeq(m.AContent, LAMBDA b : b.Type = "tool_use")
            IN  [i \in 1..Len(tu) |-> [ID |-> tu[i].ID, Name |-> tu[i].Name, Raw |-> tu[i].Input]]

\* the payloads that are the JSON text of an object, and the mapping each denotes
ObjectTexts == { RawParis, "{}" }

ObjectOf(raw) == IF raw = RawParis THEN GoMap({<<"location", "Paris">>}) ELSE EmptyMap

HasArgumentPayloads == msg.kind \in {"openai", "anthropic", "history"}

\* C11: ToolCalls() has one entry per vendor tool-call entry, in order, with id and name
\* preserved; Arguments() is the parsed mapping when the payload is the JSON text of an
\* object and an empty non-nil mapping when it is not.
C11_ArgumentsFallback ==
    HasArgumentPayloads =>
        \A r \in 1..Len(reads) :
            /\ Len(reads[r]) = Len(VendorEntries(msg))
            /\ \A i \in 1..Len(reads[r]) :
                  LET e == VendorEntries(msg)[i]
                  IN  /\ reads[r][i].ID = e.ID
                      /\ reads[r][i].Name = e.Name
                      /\ reads[r][i].Arguments =
                            IF e.Raw \in ObjectTexts THEN ObjectOf(e.Raw) ELSE EmptyMap

\* what one block of an Anthropic message contributes to Content(), by itself: a text
\* block its text; a tool_result block its content if that is a string, else the text
\* fields of its array-of-map content, else its raw text
BlockContribution(block) ==
    CASE block.Type = "text" -> <<block.Text>>
      [] block.Type = "tool_result" ->
            IF block.Content.k = "string" THEN <<block.Content.v>>
            ELSE LET maps == IF block.Content.k = "array"
                             THEN SelectSeq(block.Content.v,
                                      LAMBDA item : item.k = "map" /\ item.text # Absent)
                             ELSE <<>>
                 IN  IF maps # <<>> THEN [i \in 1..Len(maps) |-> Sprint(maps[i].text)]
                     ELSE IF block.Text # <<>> THEN <<block.Text>>
                     ELSE <<>>
      [] OTHER -> <<>>

RECURSIVE Contributions(_)
Contributions(blocks) ==
    IF blocks = <<>> THEN <<>>
    ELSE BlockContribution(Head(blocks)) \o Contributions(Tail(blocks))

\* C17: Content() of an Anthropic message is the contributions of its blocks, in block
\* order, joined by one space and trimmed, each block contributing by itself whatever
\* the other blocks of the message contributed.
C17_AnthropicContentPerBlock ==
    (msg.kind = "anthropic" /\ result # None /\ result.op = "Content") =>
        result.v = TrimSpace(Join(Contributions(msg.Content), <<" ">>))

-----------------------------------------------------------------------------
(* SpecSchema: the input schema of one Tool and its Google translation *)

LeafProperties ==
    { Property({"type", "description"}, "string", <<"d">>, NoProperties, None, <<>>),
      Property({"type"}, "boolean", <<>>, NoProperties, None, <<>>),
      Property({"type"}, "integer", <<>>, NoProperties, None, <<>>) }

\* an object or array description that lacks its "properties" or "items" entry
OpenProperties ==
    { Property({"type"}, "object", <<>>, NoProperties, None, <<>>),
      Property({"type"}, "array", <<>>, NoProperties, None, <<>>) }

\* the property descriptions nested at most d levels deep
RECURSIVE PropertiesOfDepth(_)
PropertiesOfDepth(d) ==
    IF d = 0 THEN LeafProperties \cup OpenProperties
    ELSE LET inner == PropertiesOfDepth(d - 1)
         IN  LeafProperties \cup OpenProperties
             \cup { Property({"type", "properties"}, "object", <<>>, NoProperties, None, <<>>) }
             \cup { Property({"type", "properties", "required"}, "object", <<>>,
                             [name \in {"q"} |-> x], None, req) :
                        x \in inner, req \in {<<>>, <<"q">>} }
             \cup { Property({"type", "items"}, "array", <<>>, NoProperties, x, <<>>) :
                        x \in inner }

\* the required lists a schema with the properties ps may carry
RequiredLists(ps) ==
    { r \in {<<>>, <<"a">>, <<"a", "b">>} : Range(r) \subseteq DOMAIN ps }

InitSchema ==
    /\ \E names \in SUBSET {"a", "b"} :
         \E ps \in [names -> PropertiesOfDepth(MaxDepth)] :
           \E req \in RequiredLists(ps) :
              schema = Schema("object", ps, req)
    /\ gschema = None
    /\ MsgIdle /\ GoogleIdle /\ adapter = "none" /\ SendIdle

Translate ==
    /\ gschema = None
    /\ gschema' = translateToGoogleSchema(schema)
    /\ UNCHANGED <<schema, msgVars, googleVars, sendVars>>

NextSchema == Translate

SpecSchema == InitSchema /\ [][NextSchema]_vars

Translated == gschema # None /\ ~IsPanicked(gschema)

\* C9: a Tool with no properties translates to a nullable schema whose only property
\* is a nullable integer named unused; a Tool with properties gets neither.
C9_ZeroArgumentWorkaround ==
    Translated =>
        IF DOMAIN schema.Properties = {}
        THEN /\ gschema.Nullable
             /\ DOMAIN gschema.Properties = {"unused"}
             /\ gschema.Properties["unused"].Type = "TypeInteger"
             /\ gschema.Properties["unused"].Nullable
        ELSE /\ ~gschema.Nullable
             /\ DOMAIN gschema.Properties = DOMAIN schema.Properties

C9_Witness ==
    /\ Translated
    /\ DOMAIN schema.Properties = {}
    /\ DOMAIN gschema.Properties = {"unused"}

\* the vendor type a source type corresponds to
CorrespondingType(typ) ==
    IF typ \in {"string", "boolean", "object", "array"}
    THEN [string |-> "TypeString", boolean |-> "TypeBoolean",
          object |-> "TypeObject", array |-> "TypeArray"][typ]
    ELSE "TypeUnspecified"

RECURSIVE WellFormed(_)
WellFormed(p) ==
    /\ "type" \in p.has
    /\ p.type = "object" =>
          /\ "properties" \in p.has
          /\ \A name \in DOMAIN p.properties : WellFormed(p.properties[name])
    /\ p.type = "array" => "items" \in p.has /\ WellFormed(p.items)

\* the translation g of property description p keeps p's shape at every level
RECURSIVE SameShape(_, _)
SameShape(p, g) ==
    /\ g.Type = CorrespondingType(p.type)
    /\ g.Required = p.required
    /\ DOMAIN g.Properties = DOMAIN p.properties
    /\ \A name \in DOMAIN p.properties : SameShape(p.properties[name], g.Properties[name])
    /\ p.type = "array" => g.Items # NoSchema /\ SameShape(p.items, g.Items)

\* C10: the translation of a schema with nested object and array properties has, at
\* every level, the source's type, required list and property names, and items
\* translated from the source's items.
C10_ShapePreserving ==
    (/\ Translated
     /\ DOMAIN schema.Properties # {}
     /\ \A name \in DOMAIN schema.Properties : WellFormed(schema.Properties[name])) =>
        /\ gschema.Type = CorrespondingType(schema.Type)
        /\ gschema.Required = schema.Required
        /\ DOMAIN gschema.Properties = DOMAIN schema.Properties
        /\ \A name \in DOMAIN schema.Properties :
              SameShape(schema.Properties[name], gschema.Properties[name])

-----------------------------------------------------------------------------
(* cmd/google: Provider.SendMessage on one Provider instance.  Each goroutine *)
(* in Threads may call it; a call is a sequence of steps, one per access to   *)
(* the Provider's fields, so that calls which are not serialized interleave.  *)

\* what the vendor client returned: an error, or a response with its choices
\* (OpenAI) or candidates (Google), in order
VendorReply(err, choices) == [err |-> err, choices |-> choices]

\* what SendMessage returned, with the vendor reply it was given: err is "" for nil
SendOutcome(reply, m, err) == [reply |-> reply, msg |-> m, err |-> err]

VendorError         == "vendor error"               \* the error of a failed vendor call
NoResponseFromModel == "no response from model"
NoChoicesInResponse == "no choices in response"

\* llm.IsToolResponse
IsToolResponse(m) == ToolResponse(m).ok

\* genai.Content
GenaiContent(role, parts) == [Role |-> role, Parts |-> parts]

\* the history turns one prior message becomes
HistoryOfMessage(m) ==
    LET calls   == ToolCalls(m, <<>>)
        results == IF IsToolResponse(m) /\ m.kind = "history"
                   THEN SelectSeq(m.AContent, LAMBDA b : b.Type = "tool_result")
                   ELSE <<>>
        text    == TrimSpace(Content(m))
    IN  [i \in 1..Len(calls) |->
            GenaiContent(Role(m), <<FunctionCallPart(calls[i].Name, calls[i].Arguments)>>)]
        \o [i \in 1..Len(results) |-> GenaiContent(Role(m), <<TextPart(results[i].Text)>>)]
        \o (IF text # <<>> THEN <<GenaiContent(Role(m), <<TextPart(text)>>)>> ELSE <<>>)

\* the history built from the prior messages
RECURSIVE BuildHistory(_)
BuildHistory(messages) ==
    IF messages = <<>> THEN <<>>
    ELSE HistoryOfMessage(Head(messages)) \o BuildHistory(Tail(messages))

\* llm.Tool and the genai.Tool declared for it
Tool(name, description, inputSchema) ==
    [Name |-> name, Description |-> description, InputSchema |-> inputSchema]

GenaiTool(tool) ==
    [Name |-> tool.Name, Description |-> tool.Description,
     Parameters |-> translateToGoogleSchema(tool.InputSchema)]

\* p.toolCallID += n, with the counter value that was loaded
NextToolCallID_PlusOne(loaded, n) == loaded + 1
NextToolCallID_NoAdvance(loaded, n) == loaded
NextToolCallID(loaded, n) == loaded + n

\* the locals of a SendMessage call: its arguments, hist, the loop index over tools,
\* the Message m and the counter value loaded for the addition; sent records whether
\* the request went out with the session this call had set up
Frame(messages, tools, hist, i, sent, m, loaded) ==
    [messages |-> messages, tools |-> tools, hist |-> hist, i |-> i,
     sent |-> sent, m |-> m, loaded |-> loaded]

\* the prior-message lists and tool lists the callers pass
UserTurn == HistoryMessage("user", <<TextBlock(<<"a">>)>>)

ModelTurn == GoogleMessage("model", <<FunctionCallPart("get_weather", NilMap)>>, 0)

ResultTurn == HistoryMessage("user", <<ToolResultBlock("Tool<0>", <<"r">>, AnyNil)>>)

WeatherTool ==
    Tool("get_weather", <<"w">>,
         Schema("object",
                [name \in {"location"} |->
                    Property({"type"}, "string", <<>>, NoProperties, None, <<>>)],
                <<"location">>))

TimeTool == Tool("get_time", <<"t">>, Schema("object", NoProperties, <<>>))

\* what a caller passes: the prior messages and the tools
Arguments ==
    { [messages |-> <<UserTurn>>, tools |-> <<>>],
      [messages |-> <<UserTurn, ModelTurn, ResultTurn>>, tools |-> <<WeatherTool>>],
      [messages |-> <<UserTurn>>, tools |-> <<WeatherTool, TimeTool>>] }

\* the parts of a candidate that carries n function calls
CandidateParts(n) ==
    IF n = 0 THEN <<TextPart(<<"h", "i">>)>>
    ELSE [i \in 1..n |-> FunctionCallPart(IF i = 1 THEN "get_weather" ELSE "get_time", NilMap)]

InFlight == { t \in Threads : pc[t] # "idle" }

CallsStarted == Len(returned) + failed + Cardinality(InFlight)

InitGoogle ==
    /\ GoogleIdle /\ MsgIdle /\ SchemaIdle /\ adapter = "google" /\ SendIdle

\* lines 40-73: the call starts and builds hist from its arguments
SendMessage_Begin(t) ==
    /\ adapter = "google"
    /\ pc[t] = "idle"
    /\ CallsStarted < MaxCalls
    /\ \E args \in Arguments :
          frame' = [frame EXCEPT ![t] =
                       Frame(args.messages, args.tools, BuildHistory(args.messages),
                             1, "unsent", None, 0)]
    /\ pc' = [pc EXCEPT ![t] = "clear_tools"]
    /\ overlapped' = (overlapped \/ InFlight # {})
    /\ UNCHANGED <<toolCallID, chatHistory, modelTools, returned, failed, msgVars, schemaVars, sendVars>>

\* line 75: p.model.Tools = nil
SendMessage_ClearTools(t) ==
    /\ pc[t] = "clear_tools"
    /\ modelTools' = <<>>
    /\ pc' = [pc EXCEPT ![t] = "append_tools"]
    /\ UNCHANGED <<toolCallID, chatHistory, frame, returned, failed, overlapped,
                   msgVars, schemaVars, sendVars>>

\* lines 76-86: one round of the loop appends the declaration of one tool
SendMessage_AppendTool(t) ==
    /\ pc[t] = "append_tools"
    /\ frame[t].i <= Len(frame[t].tools)
    /\ modelTools' = Append(modelTools, GenaiTool(frame[t].tools[frame[t].i]))
    /\ frame' = [frame EXCEPT ![t].i = @ + 1]
    /\ UNCHANGED <<toolCallID, chatHistory, pc, returned, failed, overlapped,
                   msgVars, schemaVars, sendVars>>

\* line 88 adding hist to the history the session already holds
SendMessage_SetHistory_Append(t) ==
    /\ pc[t] = "append_tools"
    /\ frame[t].i > Len(frame[t].tools)
    /\ chatHistory' = chatHistory \o frame[t].hist
    /\ pc' = [pc EXCEPT ![t] = "send"]
    /\ UNCHANGED <<toolCallID, modelTools, frame, returned, failed, overlapped,
                   msgVars, schemaVars, sendVars>>

\* line 88: p.chat.History = hist
SendMessage_SetHistory(t) ==
    /\ pc[t] = "append_tools"
    /\ frame[t].i > Len(frame[t].tools)
    /\ chatHistory' = frame[t].hist
    /\ pc' = [pc EXCEPT ![t] = "send"]
    /\ UNCHANGED <<toolCallID, modelTools, frame, returned, failed, overlapped,
                   msgVars, schemaVars, sendVars>>

\* what p.chat.SendMessage(ctx, genai.Text("")) sends: the session as it is now
Request == [history |-> chatHistory, tools |-> modelTools, message |-> <<>>]

\* the request a call has prepared: its own history and the declarations of its tools
OwnRequest(t) ==
    [history |-> frame[t].hist,
     tools   |-> [i \in 1..Len(frame[t].tools) |-> GenaiTool(frame[t].tools[i])],
     message |-> <<>>]

SentAs(t) == IF Request = OwnRequest(t) THEN "own" ELSE "foreign"

\* lines 91-94: the vendor call returns an error; SendMessage returns it
SendMessage_CallFails(t) ==
    /\ pc[t] = "send"
    /\ failed' = failed + 1
    /\ pc' = [pc EXCEPT ![t] = "idle"]
    /\ frame' = [frame EXCEPT ![t] = None]
    /\ outcome' = SendOutcome(VendorReply(TRUE, <<>>), NilMessage, VendorError)
    /\ UNCHANGED <<toolCallID, chatHistory, modelTools, returned, overlapped,
                   msgVars, schemaVars, adapter, lastCall, request>>

\* lines 91-98 with the counter advanced on the way out
SendMessage_NoCandidates_Counts(t) ==
    /\ pc[t] = "send"
    /\ failed' = failed + 1
    /\ toolCallID' = toolCallID + 1
    /\ pc' = [pc EXCEPT ![t] = "idle"]
    /\ frame' = [frame EXCEPT ![t] = None]
    /\ chatHistory' = Append(chatHistory, GenaiContent("user", <<TextPart(<<>>)>>))
    /\ outcome' = SendOutcome(VendorReply(FALSE, <<>>), NilMessage, NoResponseFromModel)
    /\ UNCHANGED <<modelTools, returned, overlapped, msgVars, schemaVars,
                   adapter, lastCall, request>>

\* lines 91-98: the response has no candidate; SendMessage returns "no response"
SendMessage_NoCandidates(t) ==
    /\ pc[t] = "send"
    /\ failed' = failed + 1
    /\ pc' = [pc EXCEPT ![t] = "idle"]
    /\ frame' = [frame EXCEPT ![t] = None]
    /\ chatHistory' = Append(chatHistory, GenaiContent("user", <<TextPart(<<>>)>>))
    /\ outcome' = SendOutcome(VendorReply(FALSE, <<>>), NilMessage, NoResponseFromModel)
    /\ UNCHANGED <<toolCallID, modelTools, returned, overlapped, msgVars, schemaVars, adapter, lastCall, request>>

\* lines 91-104: the response has a candidate; the session keeps the exchange, and
\* the Message is stamped with the counter as it is read now
SendMessage_Stamp(t) ==
    /\ pc[t] = "send"
    /\ \E n \in 0..MaxFn :
          /\ frame' = [frame EXCEPT ![t].sent = SentAs(t),
                                    ![t].m = GoogleMessage("model", CandidateParts(n), toolCallID)]
          /\ chatHistory' = chatHistory
                              \o <<GenaiContent("user", <<TextPart(<<>>)>>),
                                   GenaiContent("model", CandidateParts(n))>>
    /\ pc' = [pc EXCEPT ![t] = "load_counter"]
    /\ UNCHANGED <<toolCallID, modelTools, returned, failed, overlapped, msgVars, schemaVars, sendVars>>

\* line 106, p.toolCallID += ...: the counter is loaded
SendMessage_LoadCounter(t) ==
    /\ pc[t] = "load_counter"
    /\ frame' = [frame EXCEPT ![t].loaded = toolCallID]
    /\ pc' = [pc EXCEPT ![t] = "store_counter"]
    /\ UNCHANGED <<toolCallID, chatHistory, modelTools, returned, failed, overlapped,
                   msgVars, schemaVars, sendVars>>

\* lines 106-107: the sum is stored and the Message returned
SendMessage_StoreCounter(t) ==
    /\ pc[t] = "store_counter"
    /\ toolCallID' = NextToolCallID(frame[t].loaded, Len(FunctionCalls(frame[t].m.Parts)))
    /\ returned' = Append(returned,
                          [m |-> frame[t].m, sent |-> frame[t].sent])
    /\ pc' = [pc EXCEPT ![t] = "idle"]
    /\ frame' = [frame EXCEPT ![t] = None]
    /\ outcome' = SendOutcome(VendorReply(FALSE, <<frame[t].m.Parts>>), frame[t].m, "")
    /\ UNCHANGED <<chatHistory, modelTools, failed, overlapped, msgVars, schemaVars, adapter, lastCall, request>>

NextGoogle ==
    \E t \in Threads :
        \/ SendMessage_Begin(t)
        \/ SendMessage_ClearTools(t)
        \/ SendMessage_AppendTool(t)
        \/ SendMessage_SetHistory(t)
        \/ SendMessage_CallFails(t)
        \/ SendMessage_NoCandidates(t)
        \/ SendMessage_Stamp(t)
        \/ SendMessage_LoadCounter(t)
        \/ SendMessage_StoreCounter(t)

SpecGoogle == InitGoogle /\ [][NextGoogle]_vars

-----------------------------------------------------------------------------
(* Properties of the Google Provider (SpecGoogle) *)

\* the number of function calls the k-th returned Message carries
CallsIn(k) == Len(FunctionCalls(returned[k].m.Parts))

\* the function calls of the first k returned Messages
RECURSIVE CallsBefore(_)
CallsBefore(k) == IF k = 0 THEN 0 ELSE CallsBefore(k - 1) + CallsIn(k)

\* the ToolCall ids the k-th returned Message hands out, in order
IdsOf(k) ==
    LET calls == ToolCalls(returned[k].m, <<>>)
    IN  [i \in 1..Len(calls) |-> calls[i].ID]

\* C1: while the calls on the Provider are serialized, the k-th returned Message
\* hands out Tool<c_k>, ..., Tool<c_k + n_k - 1> in order, c_k being the number of
\* function calls of the Messages returned before it, and the counter is their total.
C1_ConsecutiveIds ==
    ~overlapped =>
        /\ \A k \in 1..Len(returned) :
              IdsOf(k) = [i \in 1..CallsIn(k) |-> <<"Tool<", CallsBefore(k - 1) + (i - 1), ">">>]
        /\ toolCallID = CallsBefore(Len(returned))

C1_Witness ==
    /\ ~overlapped
    /\ Len(returned) = 2
    /\ IdsOf(1) = << <<"Tool<", 0, ">">>, <<"Tool<", 1, ">">> >>
    /\ IdsOf(2) = << <<"Tool<", 2, ">">> >>
    /\ toolCallID = 3

\* two different returned Messages hand out the same ToolCall id
SharedId ==
    \E j, k \in 1..Len(returned) :
        j # k /\ Range(IdsOf(j)) \cap Range(IdsOf(k)) # {}

\* C3: no two ToolCalls share an id as long as the calls on the Provider have been
\* serialized; ids are shared only after two calls were in progress at once.
C3_SharedIdOnlyAfterOverlap == SharedId => overlapped

\* two overlapping calls were stamped with the same counter value and hand out the
\* same id, and one of them sent the session the other had set up
C3_Witness ==
    /\ overlapped
    /\ Len(returned) = 2
    /\ returned[1].m.toolCallID = returned[2].m.toolCallID
    /\ Range(IdsOf(1)) \cap Range(IdsOf(2)) # {}
    /\ \E k \in 1..2 : returned[k].sent = "foreign"

\* the session turns the stated translation gives for one prior message: one
\* function-call turn per ToolCall, one text turn per stored tool_result block, one
\* text turn for the trimmed text if that is not empty
TurnsOf(m) ==
    LET calls   == ToolCalls(m, <<>>)
        results == IF m.kind = "history" /\ ToolResponse(m).ok
                   THEN SelectSeq(m.AContent, LAMBDA b : b.Type = "tool_result") ELSE <<>>
    IN  [i \in 1..Len(calls) |->
            [Role |-> Role(m),
             Parts |-> <<[k |-> "functionCall", text |-> <<>>, Name |-> calls[i].Name,
                          Args |-> calls[i].Arguments]>>]]
        \o [i \in 1..Len(results) |->
            [Role |-> Role(m),
             Parts |-> <<[k |-> "text", text |-> results[i].Text, Name |-> "",
                          Args |-> NilMap]>>]]
        \o (IF TrimSpace(Content(m)) = <<>> THEN <<>>
            ELSE <<[Role |-> Role(m),
                    Parts |-> <<[k |-> "text", text |-> TrimSpace(Content(m)), Name |-> "",
                                 Args |-> NilMap]>>]>>)

RECURSIVE TranslationOf(_)
TranslationOf(messages) ==
    IF messages = <<>> THEN <<>>
    ELSE TurnsOf(Head(messages)) \o TranslationOf(Tail(messages))

\* the names of the tools a request declares, in order
DeclaredNames(tools) == [i \in 1..Len(tools) |-> tools[i].Name]

C20_FailureKeepsCounter ==
    /\ [][failed' # failed => toolCallID' = toolCallID]_vars
    /\ [](~overlapped =>
            /\ toolCallID = CallsBefore(Len(returned))
            /\ \A k \in 1..Len(returned) : \A i \in 1..Len(IdsOf(k)) :
                  IdsOf(k)[i] = GoogleToolCallID(CallsBefore(k - 1) + i - 1))

\* a call failed, and the call after it returned a Message with the ids from Tool<0>
C20_Witness ==
    /\ ~overlapped
    /\ failed = 1 /\ Len(returned) = 1
    /\ outcome # None /\ outcome.err = ""
    /\ IdsOf(1) = <<GoogleToolCallID(0), GoogleToolCallID(1)>>
    /\ toolCallID = 2

-----------------------------------------------------------------------------
(* SendMessage of the OpenAI-style, Anthropic and Ollama adapters.  These     *)
(* Providers keep no state between calls, so one call is one step: it builds  *)
(* the outgoing message list, hands it to the vendor client and decodes the   *)
(* reply.                                                                     *)

MaxPrior == 2       \* prior messages passed to one SendMessage call

\* a *string: nil, or a pointer to s
NilString    == [k |-> "nilstring"]
StringPtr(s) == [k |-> "ptr", v |-> s]

\* json.Marshal of the map[string]any a ToolCall's Arguments() returns: a nil map is
\* written as null; maps of strings always marshal, so there is no error to return
MarshalMap(m) ==
    CASE m = NilMap   -> "null"
      [] m = EmptyMap -> "{}"
      [] OTHER        -> RawParis

\* openai.MessageParam
MessageParam(role, content, toolCalls, callID) ==
    [Role |-> role, Content |-> content, ToolCalls |-> toolCalls, ToolCallID |-> callID]

\* lines 167-185: the vendor tool calls of a message's ToolCalls
OpenAIParamToolCalls(calls) ==
    [i \in 1..Len(calls) |->
        OpenAIToolCall(calls[i].ID, calls[i].Name, MarshalMap(calls[i].Arguments))]

\* lines 202-216: the texts gathered from the tool_result blocks of a stored turn
RECURSIVE OpenAIToolResultTexts(_)
OpenAIToolResultTexts(blocks) ==
    IF blocks = <<>> THEN <<>>
    ELSE LET block == Head(blocks)
             texts ==
                 IF block.Type # "tool_result" THEN <<>>
                 ELSE IF block.Text # <<>> THEN <<block.Text>>
                 ELSE IF block.Content.k = "array"
                      THEN LET maps == SelectSeq(block.Content.v,
                                          LAMBDA item : item.k = "map" /\ item.text # Absent)
                           IN  [i \in 1..Len(maps) |-> Sprint(maps[i].text)]
                      ELSE <<>>
         IN  texts \o OpenAIToolResultTexts(Tail(blocks))

NoContentFromFunction == <<"No content returned from function">>

\* lines 195-223: the content string of a tool response
OpenAIToolResponseContent(m) ==
    LET contentStr ==
            IF Content(m) # <<>> THEN Content(m)
            ELSE IF m.kind = "history"
                 THEN Join(OpenAIToolResultTexts(m.AContent), <<"\n">>)
                 ELSE <<>>
    IN  IF contentStr = <<>> THEN NoContentFromFunction ELSE contentStr

\* lines 153-229: the MessageParam one prior message becomes
OpenAIParamOf(m) ==
    LET calls    == ToolCalls(m, <<>>)
        content  == IF Content(m) # <<>> /\ Len(calls) = 0
                    THEN StringPtr(Content(m)) ELSE NilString
        vendored == IF Len(calls) > 0 THEN OpenAIParamToolCalls(calls) ELSE <<>>
    IN  IF ToolResponse(m).ok
        THEN MessageParam("tool", StringPtr(OpenAIToolResponseContent(m)), vendored,
                          ToolResponse(m).id)
        ELSE MessageParam(Role(m), content, vendored, "")

\* the loop of lines 147-232 leaving out the messages with no content, no tool calls
\* and no tool response
RECURSIVE OpenAIMessageParams_SkipEmpty(_)
OpenAIMessageParams_SkipEmpty(messages) ==
    IF messages = <<>> THEN <<>>
    ELSE LET m == Head(messages)
         IN  (IF Content(m) = <<>> /\ Len(ToolCalls(m, <<>>)) = 0 /\ ~ToolResponse(m).ok
              THEN <<>> ELSE <<OpenAIParamOf(m)>>)
             \o OpenAIMessageParams_SkipEmpty(Tail(messages))

\* lines 147-232: the loop over the prior messages
RECURSIVE OpenAIMessageParams(_)
OpenAIMessageParams(messages) ==
    IF messages = <<>> THEN <<>>
    ELSE <<OpenAIParamOf(Head(messages))>> \o OpenAIMessageParams(Tail(messages))

\* lines 144-246: the outgoing message list
OpenAIRequestMessages(prompt, messages) ==
    OpenAIMessageParams(messages)
        \o (IF prompt # <<>> THEN <<MessageParam("user", StringPtr(prompt), <<>>, "")>>
            ELSE <<>>)

\* the decoding of lines 269-277 that keeps the last choice
OpenAIDecodeResponse_LastChoice(reply) ==
    IF reply.err THEN SendOutcome(reply, NilMessage, VendorError)
    ELSE IF Len(reply.choices) = 0 THEN SendOutcome(reply, NilMessage, NoChoicesInResponse)
    ELSE SendOutcome(reply, reply.choices[Len(reply.choices)], "")

\* lines 269-277: what SendMessage returns for the vendor's reply
OpenAIDecodeResponse(reply) ==
    IF reply.err THEN SendOutcome(reply, NilMessage, VendorError)
    ELSE IF Len(reply.choices) = 0 THEN SendOutcome(reply, NilMessage, NoChoicesInResponse)
    ELSE SendOutcome(reply, reply.choices[1], "")

\* the arguments of a SendMessage call
SendArguments(prompt, messages) == [prompt |-> prompt, messages |-> messages]

Prompts == { <<>>, <<"p">> }

\* stored history turns a caller replays
StoredPriors ==
    { HistoryMessage("user", <<TextBlock(<<"a">>)>>),
      HistoryMessage("user", <<>>),
      HistoryMessage("assistant",
          <<TextBlock(<<"b">>), ToolUseBlock("toolu_1", "get_weather", RawParis)>>),
      HistoryMessage("assistant",
          <<ToolUseBlock("toolu_1", "get_weather", RawParis),
            ToolUseBlock("toolu_2", "get_time", "{bad")>>),
      HistoryMessage("tool", <<ToolResultBlock("toolu_1", <<"r">>, AnyNil)>>),
      HistoryMessage("tool",
          <<TextBlock(<<"a">>), ToolResultBlock("toolu_1", <<"r">>, AnyNil)>>),
      HistoryMessage("tool",
          <<ToolResultBlock("toolu_2", <<>>,
                AnyArray(<<AnyMap(AnyString(<<"t">>), Absent)>>))>>),
      HistoryMessage("tool", <<ToolResultBlock("toolu_2", <<>>, AnyNil)>>) }

\* messages the OpenAI adapter produced earlier: decoded responses and tool responses
OpenAIPriors ==
    { OpenAIMessage("assistant", AnyString(<<"h", "i">>), <<>>, ""),
      OpenAIMessage("assistant", None,
          <<OpenAIToolCall("call_1", "get_weather", RawParis)>>, ""),
      OpenAIMessage("assistant", AnyString(<<"h", "i">>),
          <<OpenAIToolCall("call_1", "get_weather", RawParis)>>, ""),
      OpenAIMessage("tool", AnyString(<<"r">>), <<>>, "call_1") }

OpenAIChoices ==
    { OpenAIMessage("assistant", AnyString(<<"h", "i">>), <<>>, ""),
      OpenAIMessage("assistant", None,
          <<OpenAIToolCall("call_1", "get_weather", RawParis)>>, "") }

OpenAIReplies ==
    { VendorReply(TRUE, <<>>) } \cup { VendorReply(FALSE, cs) : cs \in SeqsUpTo(OpenAIChoices, 2) }

InitSend ==
    /\ adapter \in Providers
    /\ SendIdle /\ MsgIdle /\ SchemaIdle /\ GoogleIdle

\* openai Provider.SendMessage
OpenAISendMessage ==
    /\ adapter = "openai"
    /\ lastCall = None
    /\ \E prompt \in Prompts, reply \in OpenAIReplies :
         \E messages \in SeqsUpTo(StoredPriors \cup OpenAIPriors, MaxPrior) :
          /\ lastCall' = SendArguments(prompt, messages)
          /\ request' = OpenAIRequestMessages(prompt, messages)
          /\ outcome' = OpenAIDecodeResponse(reply)
    /\ UNCHANGED <<adapter, msgVars, schemaVars, googleVars>>

\* --- llm/anthropic: Provider.SendMessage ---

\* anthropic.MessageParam
AnthropicMessageParam(role, content) == [Role |-> role, Content |-> content]

\* lines 61-69: one tool_use block per ToolCall, its input the JSON of the arguments
AnthropicToolUseBlocks(calls) ==
    [i \in 1..Len(calls) |->
        ContentBlock("tool_use", <<>>, calls[i].ID, "", calls[i].Name,
                     MarshalMap(calls[i].Arguments), AnyNil)]

\* lines 72-95: the tool_result blocks of a tool response
AnthropicToolResultBlocks(m) ==
    IF ~ToolResponse(m).ok THEN <<>>
    ELSE IF m.kind = "history"
    THEN LET results == SelectSeq(m.AContent, LAMBDA b : b.Type = "tool_result")
         IN  [i \in 1..Len(results) |->
                 ContentBlock("tool_result", <<>>, "", results[i].ToolUseID, "", "",
                              results[i].Content)]
    ELSE <<ContentBlock("tool_result", <<>>, "", ToolResponse(m).id, "", "",
                        AnyString(Content(m)))>>

\* lines 50-102: the MessageParam one prior message becomes
AnthropicParamOf(m) ==
    LET textContent == TrimSpace(Content(m))
    IN  AnthropicMessageParam(Role(m),
            (IF textContent # <<>> THEN <<TextBlock(textContent)>> ELSE <<>>)
            \o AnthropicToolUseBlocks(ToolCalls(m, <<>>))
            \o AnthropicToolResultBlocks(m))

\* the loop of lines 44-103 leaving out the messages whose content list is empty
RECURSIVE AnthropicMessageParams_SkipEmpty(_)
AnthropicMessageParams_SkipEmpty(messages) ==
    IF messages = <<>> THEN <<>>
    ELSE (IF AnthropicParamOf(Head(messages)).Content = <<>> THEN <<>>
          ELSE <<AnthropicParamOf(Head(messages))>>)
         \o AnthropicMessageParams_SkipEmpty(Tail(messages))

\* lines 44-103: the loop over the prior messages
RECURSIVE AnthropicMessageParams(_)
AnthropicMessageParams(messages) ==
    IF messages = <<>> THEN <<>>
    ELSE <<AnthropicParamOf(Head(messages))>> \o AnthropicMessageParams(Tail(messages))

\* lines 42-114: the outgoing message list
AnthropicRequestMessages(prompt, messages) ==
    AnthropicMessageParams(messages)
        \o (IF prompt # <<>> THEN <<AnthropicMessageParam("user", <<TextBlock(prompt)>>)>>
            ELSE <<>>)

\* lines 135-145: what SendMessage returns for the vendor's reply, one APIMessage
AnthropicDecodeResponse(reply) ==
    IF reply.err THEN SendOutcome(reply, NilMessage, VendorError)
    ELSE SendOutcome(reply, reply.choices[1], "")

\* messages the Anthropic adapter produced earlier
AnthropicPriors ==
    { AnthropicMessage("assistant", <<TextBlock(<<"h", "i">>)>>),
      AnthropicMessage("assistant", <<>>),
      AnthropicMessage("assistant",
          <<TextBlock(<<"h", "i">>), ToolUseBlock("toolu_1", "get_weather", RawParis)>>),
      AnthropicMessage("tool",
          <<ContentBlock("tool_result", <<"r">>, "", "toolu_1", "", "", AnyString(<<"r">>))>>) }

AnthropicReplies ==
    { VendorReply(TRUE, <<>>),
      VendorReply(FALSE, <<AnthropicMessage("assistant", <<TextBlock(<<"h", "i">>)>>)>>) }

\* anthropic Provider.SendMessage
AnthropicSendMessage ==
    /\ adapter = "anthropic"
    /\ lastCall = None
    /\ \E prompt \in Prompts, reply \in AnthropicReplies :
         \E messages \in SeqsUpTo(StoredPriors \cup AnthropicPriors, MaxPrior) :
          /\ lastCall' = SendArguments(prompt, messages)
          /\ request' = AnthropicRequestMessages(prompt, messages)
          /\ outcome' = AnthropicDecodeResponse(reply)
    /\ UNCHANGED <<adapter, msgVars, schemaVars, googleVars>>

\* --- cmd/ollama: Provider.SendMessage ---

\* api.Message
OllamaAPIMessage(role, content, toolCalls) ==
    [Role |-> role, Content |-> content, ToolCalls |-> toolCalls]

\* msg.ToolCalls() as SendMessage uses it: only names and arguments are read, so the
\* clock readings that go into the ids of an OllamaMessage's calls do not matter
CallsOf(m) ==
    IF m.kind = "ollama" THEN ToolCalls(m, [i \in 1..Len(m.ToolCalls) |-> now])
    ELSE ToolCalls(m, <<>>)

\* lines 63-70: the Text of the first tool_result block of a stored turn
RECURSIVE FirstToolResultText(_)
FirstToolResultText(blocks) ==
    IF blocks = <<>> THEN <<>>
    ELSE IF Head(blocks).Type = "tool_result" THEN Head(blocks).Text
    ELSE FirstToolResultText(Tail(blocks))

\* lines 59-87 with the two sources of the content tried in the other order
OllamaToolMessage_ContentFirst(m) ==
    LET stored  == IF m.kind = "history" THEN FirstToolResultText(m.AContent) ELSE <<>>
        content == IF Content(m) # <<>> THEN Content(m) ELSE stored
    IN  IF content = <<>> THEN <<>> ELSE <<OllamaAPIMessage("tool", content, <<>>)>>

\* lines 59-87: the messages (none or one) a tool response becomes
OllamaToolMessage(m) ==
    LET stored  == IF m.kind = "history" THEN FirstToolResultText(m.AContent) ELSE <<>>
        content == IF stored # <<>> THEN stored ELSE Content(m)
    IN  IF content = <<>> THEN <<>> ELSE <<OllamaAPIMessage("tool", content, <<>>)>>

\* lines 100-115: the api.ToolCalls of an assistant message, unnamed calls left out
OllamaParamToolCalls(m) ==
    IF Role(m) # "assistant" THEN <<>>
    ELSE LET named == SelectSeq(CallsOf(m), LAMBDA c : c.Name # "")
         IN  [i \in 1..Len(named) |-> OllamaAPIToolCall(named[i].Name, named[i].Arguments)]

\* lines 57-118: the messages (none or one) one prior message becomes
OllamaMessagesOf(m) ==
    IF IsToolResponse(m) THEN OllamaToolMessage(m)
    ELSE IF Content(m) = <<>> /\ Len(CallsOf(m)) = 0 THEN <<>>
    ELSE <<OllamaAPIMessage(Role(m), Content(m), OllamaParamToolCalls(m))>>

RECURSIVE OllamaMessages(_)
OllamaMessages(messages) ==
    IF messages = <<>> THEN <<>>
    ELSE OllamaMessagesOf(Head(messages)) \o OllamaMessages(Tail(messages))

\* lines 54-126: the outgoing message list
OllamaRequestMessages(prompt, messages) ==
    OllamaMessages(messages)
        \o (IF prompt # <<>> THEN <<OllamaAPIMessage("user", prompt, <<>>)>> ELSE <<>>)

\* lines 163-179: what SendMessage returns for the vendor's reply, one api.Message
OllamaDecodeResponse(reply) ==
    IF reply.err THEN SendOutcome(reply, NilMessage, VendorError)
    ELSE SendOutcome(reply, reply.choices[1], "")

\* messages the Ollama adapter produced earlier
OllamaPriors ==
    { OllamaMessage("assistant", <<"h", "i">>, <<>>, ""),
      OllamaMessage("assistant", <<>>, <<>>, ""),
      OllamaMessage("assistant", <<>>,
          <<OllamaAPIToolCall("get_weather", GoMap({<<"location", "Paris">>}))>>, ""),
      OllamaMessage("tool", <<"r">>, <<>>, "tc_1"),
      OllamaMessage("tool", <<>>, <<>>, "tc_1") }

OllamaReplies ==
    { VendorReply(TRUE, <<>>),
      VendorReply(FALSE, <<OllamaMessage("assistant", <<"h", "i">>, <<>>, "")>>) }

\* ollama Provider.SendMessage
OllamaSendMessage ==
    /\ adapter = "ollama"
    /\ lastCall = None
    /\ \E prompt \in Prompts, reply \in OllamaReplies :
         \E messages \in SeqsUpTo(StoredPriors \cup OllamaPriors, MaxPrior) :
          /\ lastCall' = SendArguments(prompt, messages)
          /\ request' = OllamaRequestMessages(prompt, messages)
          /\ outcome' = OllamaDecodeResponse(reply)
    /\ UNCHANGED <<adapter, msgVars, schemaVars, googleVars>>

NextSend ==
    \/ OpenAISendMessage
    \/ AnthropicSendMessage
    \/ OllamaSendMessage
    \/ NextGoogle

SpecSend == InitSend /\ [][NextSend]_vars

-----------------------------------------------------------------------------
(* Properties of SendMessage (SpecSend) *)

NoResponseErrors == { NoChoicesInResponse, NoResponseFromModel }

\* the Message an adapter builds from one choice or candidate of a reply
BuiltFrom(m, choice) ==
    IF m.kind = "google" THEN m.Parts = choice ELSE m = choice

\* C12: a vendor call that succeeds with zero choices (OpenAI) or zero candidates
\* (Google) makes SendMessage return a "no response" error and no Message; with at
\* least one it returns no error and the Message built from the first one.
C12_NoResponseError ==
    (adapter \in {"openai", "google"} /\ outcome # None /\ ~outcome.reply.err) =>
        IF Len(outcome.reply.choices) = 0
        THEN outcome.msg = NilMessage /\ outcome.err \in NoResponseErrors
        ELSE outcome.err = "" /\ BuiltFrom(outcome.msg, outcome.reply.choices[1])

C12_Witness ==
    /\ adapter = "openai" /\ outcome # None /\ request # None
    /\ ~outcome.reply.err /\ outcome.reply.choices = <<>>
    /\ outcome.msg = NilMessage /\ outcome.err = NoChoicesInResponse

OpenAICalled == adapter = "openai" /\ lastCall # None

PromptEntries == IF lastCall.prompt # <<>> THEN 1 ELSE 0

\* the ids of a sequence of tool calls, in order
IdsIn(calls) == [i \in 1..Len(calls) |-> calls[i].ID]

\* entry e of the outgoing list is the entry of prior message m: it has the role m is
\* sent under, the tool-call ids of m and the tool-response id of m
OpenAIEntryOf(e, m) ==
    /\ e.Role = (IF ToolResponse(m).ok THEN "tool" ELSE Role(m))
    /\ e.ToolCallID = ToolResponse(m).id
    /\ IdsIn(e.ToolCalls) = IdsIn(ToolCalls(m, <<>>))

\* C13: the OpenAI outgoing list has one entry per prior message, in the order of
\* priorMessages, then one user entry holding the prompt if the prompt is non-empty.
C13_OpenAIOneEntryPerMessage ==
    OpenAICalled =>
        /\ Len(request) = Len(lastCall.messages) + PromptEntries
        /\ \A i \in 1..Len(lastCall.messages) : OpenAIEntryOf(request[i], lastCall.messages[i])
        /\ lastCall.prompt # <<>> =>
              request[Len(request)] = MessageParam("user", StringPtr(lastCall.prompt), <<>>, "")

C13_Witness ==
    /\ OpenAICalled
    /\ lastCall.prompt = <<"p">>
    /\ lastCall.messages = << HistoryMessage("user", <<>>),
                              HistoryMessage("tool", <<ToolResultBlock("toolu_1", <<"r">>, AnyNil)>>) >>
    /\ Len(request) = 3
    /\ request[1].Role = "user" /\ request[2].Role = "tool" /\ request[3].Role = "user"

\* the text the tool_result blocks of a stored turn yield; nothing for other messages
ToolResultExtraction(m) ==
    IF m.kind = "history" THEN Join(OpenAIToolResultTexts(m.AContent), <<"\n">>) ELSE <<>>

\* C14: an OpenAI prior message that is a tool response is sent with role tool and
\* the id of its ToolResponse(); its content is what its tool_result blocks yield,
\* and its Content() only when they yield nothing.
C14_OpenAIToolResultPreferred ==
    OpenAICalled =>
        \A i \in 1..Len(lastCall.messages) :
            LET m == lastCall.messages[i]
            IN  ToolResponse(m).ok =>
                    /\ request[i].Role = "tool"
                    /\ request[i].ToolCallID = ToolResponse(m).id
                    /\ ToolResultExtraction(m) # <<>> =>
                          request[i].Content = StringPtr(ToolResultExtraction(m))
                    /\ (ToolResultExtraction(m) = <<>> /\ Content(m) # <<>>) =>
                          request[i].Content = StringPtr(Content(m))

\* C15: an OpenAI prior message that is not a tool response is sent with its role and
\* its content; an assistant one also carries one function tool call per ToolCall, in
\* order, with its id, its name and its arguments as JSON, and keeps its text.
C15_OpenAIRoleContentToolCalls ==
    OpenAICalled =>
        \A i \in 1..Len(lastCall.messages) :
            LET m == lastCall.messages[i]
                calls == ToolCalls(m, <<>>)
            IN  ~ToolResponse(m).ok =>
                    /\ request[i].Role = Role(m)
                    /\ request[i].Content =
                          (IF Content(m) # <<>> THEN StringPtr(Content(m)) ELSE NilString)
                    /\ Role(m) = "assistant" =>
                          request[i].ToolCalls =
                              [j \in 1..Len(calls) |->
                                  [ID |-> calls[j].ID, Type |-> "function",
                                   Function |-> [Name |-> calls[j].Name,
                                                 Arguments |-> MarshalMap(calls[j].Arguments)]]]

AnthropicCalled == adapter = "anthropic" /\ lastCall # None

\* the ids of the tool_use blocks of a content-block list, in order
ToolUseIds(blocks) ==
    LET tu == SelectSeq(blocks, LAMBDA b : b.Type = "tool_use")
    IN  [i \in 1..Len(tu) |-> tu[i].ID]

\* C16: the Anthropic outgoing list has one entry per prior message, in order and with
\* the message's role, also when its content-block list is empty, then one user entry
\* with a single text block holding the prompt if the prompt is non-empty.
C16_AnthropicOneEntryPerMessage ==
    AnthropicCalled =>
        /\ Len(request) = Len(lastCall.messages) + PromptEntries
        /\ \A i \in 1..Len(lastCall.messages) :
              /\ request[i].Role = Role(lastCall.messages[i])
              /\ ToolUseIds(request[i].Content) = IdsIn(ToolCalls(lastCall.messages[i], <<>>))
        /\ lastCall.prompt # <<>> =>
              request[Len(request)] =
                  [Role |-> "user",
                   Content |-> <<[Type |-> "text", Text |-> lastCall.prompt, ID |-> "",
                                  ToolUseID |-> "", Name |-> "", Input |-> "",
                                  Content |-> AnyNil]>>]

C16_Witness ==
    /\ AnthropicCalled
    /\ lastCall.prompt = <<"p">>
    /\ lastCall.messages = << HistoryMessage("user", <<>>),
                              AnthropicMessage("assistant", <<TextBlock(<<"h", "i">>)>>) >>
    /\ Len(request) = 3
    /\ request[1] = [Role |-> "user", Content |-> <<>>]
    /\ request[2].Role = "assistant" /\ request[3].Role = "user"

OllamaCalled == adapter = "ollama" /\ lastCall # None

\* the text of the stored tool_result block of a history turn (its first one)
StoredToolResultText(m) ==
    IF m.kind = "history" /\ HasBlock(m, "tool_result")
    THEN FirstBlock(m, "tool_result").Text ELSE <<>>

\* the (role, content) pairs the rules of C18 call for, for one prior message
OllamaRule(m) ==
    IF ToolResponse(m).ok
    THEN LET c == IF StoredToolResultText(m) # <<>> THEN StoredToolResultText(m)
                  ELSE Content(m)
         IN  IF c = <<>> THEN <<>> ELSE << <<"tool", c>> >>
    ELSE IF Content(m) = <<>> /\ Len(CallsOf(m)) = 0 THEN <<>>
    ELSE << <<Role(m), Content(m)>> >>

RECURSIVE OllamaRules(_)
OllamaRules(messages) ==
    IF messages = <<>> THEN <<>>
    ELSE OllamaRule(Head(messages)) \o OllamaRules(Tail(messages))

====
